---- MODULE Spec2Model ----
(***************************************************************************)
(* Token vesting (sabijuraa/solana-token-vesting).                         *)
(*                                                                         *)
(* One vesting schedule account (the PDA derived from admin, beneficiary   *)
(* and mint) together with its vault, the admin's and the beneficiary's    *)
(* token accounts and the cluster clock.  The on-chain handlers are        *)
(* modelled from the Rust excerpts of the tutorial kept in                 *)
(* src/tests/token-vesting.ts (sections 3.3 - 3.8); the client-side        *)
(* arithmetic is modelled from src/frontend/src/utils/program.ts.          *)
(* Where the excerpts elide a statement (the claim handler's guards, the   *)
(* helper methods of VestingSchedule, two of create's checks) the          *)
(* definition follows the specification and says so.                       *)
(*                                                                         *)
(* Times are seconds, amounts are token base units.  The model's integers  *)
(* are narrower than the program's: its i64 ends at MaxTimestamp, which    *)
(* stands for i64::MAX, and the client's exact numbers end at              *)
(* MaxSafeNumber, which stands for 2^53 - 1; the program's constants keep  *)
(* their values.  The arithmetic that can leave its width is modelled: the *)
(* cast of a negative cliff_duration to u64, the checked additions of      *)
(* calculate_vested_amount and the client's BN.toNumber().                 *)
(***************************************************************************)
EXTENDS Integers, FiniteSets, Sequences, TLC

VARIABLES
    schedule,           \* the VestingSchedule account (initialized = FALSE: not created)
    vault,              \* token balance of the vault PDA
    adminTokens,        \* token balance of the admin's token account
    beneficiaryTokens,  \* token balance of the beneficiary's token account
    clock,              \* Clock::get().unix_timestamp
    last,               \* the last instruction submitted and what it returned
    revokedAt,          \* history: the clock value of the successful revoke, -1 if none
    pending,            \* per client: the claim computed from a snapshot, not yet committed
    staleCommitted,     \* history: a claim computed from an outdated record was committed
    loading,            \* useVesting: the hook's loading state
    calls               \* useVesting: per call slot, the operation in flight and its await

vars == <<schedule, vault, adminTokens, beneficiaryTokens, clock, last, revokedAt,
          pending, staleCommitted, loading, calls>>

\* the state of the hook, which no instruction of the program touches
hookVars == <<loading, calls>>

----------------------------------------------------------------------------
(* Program constants (constants.rs).                                       *)

MIN_VESTING_DURATION == 86400
MAX_VESTING_DURATION == 315360000
MAX_CLIFF_PERCENTAGE == 50

----------------------------------------------------------------------------
(* Bounds of the model.                                                    *)

\* the largest total_amount an admin submits
MaxAmount == 1000
\* the last clock value the model looks at
MaxClock == 90000
\* tokens minted to the admin before the first instruction
InitialAdminTokens == 2000

\* calls of one useVesting instance that can be in flight together
NumCalls == 2

\* the largest timestamp of the model's i64 (it stands for i64::MAX)
MaxTimestamp == 2000000000
\* the largest integer the client's numbers hold exactly (it stands for 2^53 - 1)
MaxSafeNumber == 1000000000

\* start_time arguments of the wide specification: near, beyond the client's exact
\* numbers, the last one whose half-day cliff ends within the i64, and ten seconds
\* before the end of the i64
WideStartTimes == {100, MaxSafeNumber + 1, MaxTimestamp - 43200, MaxTimestamp - 10}

\* clients that may compute a claim from a snapshot of the same schedule
NumClients == 2

Clients == 1 .. NumClients

\* total_amount arguments: zero, and one that makes the linear branch round
Amounts == {0, MaxAmount}
\* start_time argument: in the future until the clock reaches it
StartTimes == {100}
\* cliff_duration arguments: negative, none, half a day, one second more, 60% of a day,
\* more than a day
Cliffs == {-1, 0, 43200, 43201, 51840, 86401}
\* vesting_duration arguments of the life-cycle specification: an hour, a day, ten years
\* and a second
Durations == {3600, MIN_VESTING_DURATION, MAX_VESTING_DURATION + 1}
\* vesting_duration arguments of the creation specification: also ten years exactly
AllDurations == Durations \cup {MAX_VESTING_DURATION}
\* the clock values at which instructions are submitted and amounts are read
TimePoints == {0, 50, 100, 101, 28900, 43299, 43300, 43301, 57700, 86499, 86500, 86501, MaxClock}

----------------------------------------------------------------------------
(* The account.                                                            *)

NoSchedule ==
    [initialized |-> FALSE, admin |-> "none", beneficiary |-> "none", mint |-> "none",
     totalAmount |-> 0, claimedAmount |-> 0, startTime |-> 0, cliffDuration |-> 0,
     vestingDuration |-> 0, isRevoked |-> FALSE, revokedAmount |-> 0]

NoArgs == [totalAmount |-> 0, startTime |-> 0, cliffDuration |-> 0, vestingDuration |-> 0]

NoCall ==
    [op |-> "none", signer |-> "none", err |-> "Ok", amount |-> 0, args |-> NoArgs,
     pre |-> NoSchedule]

\* the identities that sign a transaction
Signers == {"admin", "beneficiary", "stranger"}

\* no claim computed
\* the slots of the hook's calls; a slot without a call in flight
CallIds == 1 .. NumCalls
HookOps == {"create", "claim", "revoke"}
NoHookCall == [op |-> "none", phase |-> "idle"]

\* the state of the program and of the history the model keeps of it
programVars == <<schedule, vault, adminTokens, beneficiaryTokens, clock, last, revokedAt,
                 pending, staleCommitted>>

NoTransition ==
    [computed |-> FALSE, snapshot |-> NoSchedule,
     result |-> [err |-> "Ok", amount |-> 0, schedule |-> NoSchedule]]

----------------------------------------------------------------------------
(* Integer helpers of the two languages.                                   *)

\* u64::saturating_sub
saturating_sub(a, b) == IF a >= b THEN a - b ELSE 0

\* (cliff_duration as u64).checked_mul(100): -1 stands for None.  A negative i64 cast
\* to u64 is at least 2^63, and 100 times that is not a u64; a cliff of the model's
\* range (below 2^31) times 100 is.
\* Mutant: the product is taken on the signed value, so a negative cliff does not overflow.
cliff_checked_mul_100_signed(cliff_duration) == cliff_duration * 100

cliff_checked_mul_100(cliff_duration) ==
    IF cliff_duration < 0 THEN -1 ELSE cliff_duration * 100

\* i64::checked_add of a timestamp and a duration: none = TRUE stands for None
checked_add(a, b) ==
    LET overflow == b > 0 /\ a > MaxTimestamp - b
    IN  [none |-> overflow, value |-> IF overflow THEN 0 ELSE a + b]

----------------------------------------------------------------------------
(* state.rs: VestingSchedule::calculate_vested_amount and its companions.  *)
(* The Result<u64> of the method is modelled by two operators: the error   *)
(* (calculate_vested_amount_err) and, when there is none, the value        *)
(* (calculate_vested_amount).                                              *)

\* Mutant: the additions are unchecked, the method never reports an overflow.
calculate_vested_amount_err_unchecked(s, current_time) == "Ok"

\* the error of calculate_vested_amount: "Ok" when it returns a value
calculate_vested_amount_err(s, current_time) ==
    IF s.isRevoked THEN "Ok"
    ELSE LET cliff_end == checked_add(s.startTime, s.cliffDuration)
             vesting_end == checked_add(s.startTime, s.vestingDuration)
         IN  IF cliff_end.none THEN "CalculationOverflow"
             ELSE IF current_time < cliff_end.value THEN "Ok"
             ELSE IF vesting_end.none THEN "CalculationOverflow"
             ELSE IF current_time >= vesting_end.value THEN "Ok"
             ELSE IF s.vestingDuration = 0 THEN "CalculationOverflow"
             ELSE "Ok"

\* Mutant: the revoked branch returns the revoked part instead of what is left of the total.
calculate_vested_amount_returns_revoked(s, current_time) ==
    IF s.isRevoked
    THEN s.revokedAmount
    ELSE LET cliff_end == s.startTime + s.cliffDuration
             vesting_end == s.startTime + s.vestingDuration
             elapsed == current_time - s.startTime
         IN  IF current_time < cliff_end THEN 0
             ELSE IF current_time >= vesting_end THEN s.totalAmount
             ELSE (s.totalAmount * elapsed) \div s.vestingDuration

\* Mutant: there is no cliff branch, the amount vests linearly from start_time.
calculate_vested_amount_no_cliff(s, current_time) ==
    IF s.isRevoked
    THEN saturating_sub(s.totalAmount, s.revokedAmount)
    ELSE LET vesting_end == s.startTime + s.vestingDuration
             elapsed == current_time - s.startTime
         IN  IF current_time < s.startTime THEN 0
             ELSE IF current_time >= vesting_end THEN s.totalAmount
             ELSE (s.totalAmount * elapsed) \div s.vestingDuration

\* Mutant: the quotient of the linear branch is rounded up.
calculate_vested_amount_rounds_up(s, current_time) ==
    IF s.isRevoked
    THEN saturating_sub(s.totalAmount, s.revokedAmount)
    ELSE LET cliff_end == s.startTime + s.cliffDuration
             vesting_end == s.startTime + s.vestingDuration
             elapsed == current_time - s.startTime
         IN  IF current_time < cliff_end THEN 0
             ELSE IF current_time >= vesting_end THEN s.totalAmount
             ELSE (s.totalAmount * elapsed + s.vestingDuration - 1) \div s.vestingDuration

\* Mutant: the linear branch interpolates over the time that remains, not the time elapsed.
calculate_vested_amount_remaining(s, current_time) ==
    IF s.isRevoked
    THEN saturating_sub(s.totalAmount, s.revokedAmount)
    ELSE LET cliff_end == s.startTime + s.cliffDuration
             vesting_end == s.startTime + s.vestingDuration
             elapsed == vesting_end - current_time
         IN  IF current_time < cliff_end THEN 0
             ELSE IF current_time >= vesting_end THEN s.totalAmount
             ELSE (s.totalAmount * elapsed) \div s.vestingDuration

\* Mutant: the elapsed time of the linear branch is measured from the end of the cliff.
calculate_vested_amount_from_cliff(s, current_time) ==
    IF s.isRevoked
    THEN saturating_sub(s.totalAmount, s.revokedAmount)
    ELSE LET cliff_end == s.startTime + s.cliffDuration
             vesting_end == s.startTime + s.vestingDuration
             elapsed == current_time - cliff_end
         IN  IF current_time < cliff_end THEN 0
             ELSE IF current_time >= vesting_end THEN s.totalAmount
             ELSE (s.totalAmount * elapsed) \div s.vestingDuration

calculate_vested_amount(s, current_time) ==
    IF s.isRevoked
    THEN saturating_sub(s.totalAmount, s.revokedAmount)
    ELSE LET cliff_end == s.startTime + s.cliffDuration
             vesting_end == s.startTime + s.vestingDuration
             elapsed == current_time - s.startTime
         IN  IF current_time < cliff_end THEN 0
             ELSE IF current_time >= vesting_end THEN s.totalAmount
             ELSE (s.totalAmount * elapsed) \div s.vestingDuration

\* VestingSchedule::is_fully_vested (called by revoke; its body is not in the excerpts)
is_fully_vested(s, current_time) ==
    calculate_vested_amount(s, current_time) = s.totalAmount

\* VestingSchedule::calculate_unvested_amount (called by revoke; body not in the excerpts)
calculate_unvested_amount(s, current_time) ==
    s.totalAmount - calculate_vested_amount(s, current_time)

----------------------------------------------------------------------------
(* frontend/src/utils/program.ts: the client's copy of the arithmetic (BN). *)

\* Mutant: the client forgets the revoked branch and keeps interpolating.
calculateVestedAmount_ignores_revocation(s, currentTime) ==
    LET cliffEnd == s.startTime + s.cliffDuration
        vestingEnd == s.startTime + s.vestingDuration
        elapsed == currentTime - s.startTime
    IN  IF currentTime < cliffEnd THEN 0
        ELSE IF currentTime >= vestingEnd THEN s.totalAmount
        ELSE (s.totalAmount * elapsed) \div s.vestingDuration

calculateVestedAmount(s, currentTime) ==
    IF s.isRevoked
    THEN s.totalAmount - s.revokedAmount
    ELSE LET cliffEnd == s.startTime + s.cliffDuration
             vestingEnd == s.startTime + s.vestingDuration
             elapsed == currentTime - s.startTime
         IN  IF currentTime < cliffEnd THEN 0
             ELSE IF currentTime >= vestingEnd THEN s.totalAmount
             ELSE (s.totalAmount * elapsed) \div s.vestingDuration

\* BN.toNumber(): it throws when the value does not fit the exact range of a number
toNumber_throws(n) == n > MaxSafeNumber \/ n < -MaxSafeNumber

\* whether calculateVestedAmount returns ("Ok") or throws ("Error"): the revoked branch
\* returns before the three conversions
calculateVestedAmount_err(s, currentTime) ==
    IF s.isRevoked THEN "Ok"
    ELSE IF \/ toNumber_throws(s.startTime)
            \/ toNumber_throws(s.cliffDuration)
            \/ toNumber_throws(s.vestingDuration)
         THEN "Error"
    ELSE "Ok"

\* Mutant: the literal subtraction, without the comparison with zero.
calculateClaimableAmount_unguarded(s, currentTime) ==
    calculateVestedAmount(s, currentTime) - s.claimedAmount

calculateClaimableAmount(s, currentTime) ==
    LET vested == calculateVestedAmount(s, currentTime)
        claimable == vested - s.claimedAmount
    IN  IF claimable > 0 THEN claimable ELSE 0

----------------------------------------------------------------------------
(* frontend/src/components/VestingCard.tsx: the beneficiary's Claim button. *)

\* const isCliffReached = currentTime >= cliffEnd.getTime()
isCliffReached(s, currentTime) == currentTime >= s.startTime + s.cliffDuration

\* disabled={loading || !isCliffReached || account.isRevoked || claimableAmount.isZero()}
claim_button_disabled(s, currentTime, isLoading) ==
    \/ isLoading
    \/ ~isCliffReached(s, currentTime)
    \/ s.isRevoked
    \/ calculateClaimableAmount(s, currentTime) = 0

----------------------------------------------------------------------------
(* create_vesting.rs: the handler's checks, in the order it makes them.    *)

\* require!(vesting_duration <= MAX_VESTING_DURATION, DurationTooLong): not in the excerpt
duration_within_max(vesting_duration) == vesting_duration <= MAX_VESTING_DURATION

\* require!(cliff_duration <= vesting_duration, InvalidCliff): not in the excerpt
cliff_within_duration(cliff_duration, vesting_duration) == cliff_duration <= vesting_duration

\* (cliff_duration as u64).checked_mul(100)?.checked_div(vesting_duration as u64)?
cliff_percentage(cliff_duration, vesting_duration) ==
    cliff_checked_mul_100(cliff_duration) \div vesting_duration

\* Mutant: the start time is checked before the durations and the cliff.
create_vesting_check_start_first(total_amount, start_time, cliff_duration, vesting_duration, now) ==
    IF ~(total_amount > 0) THEN "InvalidAmount"
    ELSE IF ~(start_time > now) THEN "StartTimeInPast"
    ELSE IF ~(vesting_duration >= MIN_VESTING_DURATION) THEN "DurationTooShort"
    ELSE IF ~duration_within_max(vesting_duration) THEN "DurationTooLong"
    ELSE IF ~cliff_within_duration(cliff_duration, vesting_duration) THEN "InvalidCliff"
    ELSE IF cliff_checked_mul_100(cliff_duration) = -1 THEN "CalculationOverflow"
    ELSE IF ~(cliff_percentage(cliff_duration, vesting_duration) <= MAX_CLIFF_PERCENTAGE)
         THEN "CliffPercentageTooHigh"
    ELSE "Ok"

\* Mutant: a start time equal to the clock is accepted (>= for >).
create_vesting_check_start_now(total_amount, start_time, cliff_duration, vesting_duration, now) ==
    IF ~(total_amount > 0) THEN "InvalidAmount"
    ELSE IF ~(vesting_duration >= MIN_VESTING_DURATION) THEN "DurationTooShort"
    ELSE IF ~duration_within_max(vesting_duration) THEN "DurationTooLong"
    ELSE IF ~cliff_within_duration(cliff_duration, vesting_duration) THEN "InvalidCliff"
    ELSE IF cliff_checked_mul_100(cliff_duration) = -1 THEN "CalculationOverflow"
    ELSE IF ~(cliff_percentage(cliff_duration, vesting_duration) <= MAX_CLIFF_PERCENTAGE)
         THEN "CliffPercentageTooHigh"
    ELSE IF ~(start_time >= now) THEN "StartTimeInPast"
    ELSE "Ok"

create_vesting_check(total_amount, start_time, cliff_duration, vesting_duration, now) ==
    IF ~(total_amount > 0) THEN "InvalidAmount"
    ELSE IF ~(vesting_duration >= MIN_VESTING_DURATION) THEN "DurationTooShort"
    ELSE IF ~duration_within_max(vesting_duration) THEN "DurationTooLong"
    ELSE IF ~cliff_within_duration(cliff_duration, vesting_duration) THEN "InvalidCliff"
    ELSE IF cliff_checked_mul_100(cliff_duration) = -1 THEN "CalculationOverflow"
    ELSE IF ~(cliff_percentage(cliff_duration, vesting_duration) <= MAX_CLIFF_PERCENTAGE)
         THEN "CliffPercentageTooHigh"
    ELSE IF ~(start_time > now) THEN "StartTimeInPast"
    ELSE "Ok"

\* the account the handler fills: Anchor's init zeroes the data, the handler sets the fields
new_schedule(total_amount, start_time, cliff_duration, vesting_duration) ==
    [initialized |-> TRUE, admin |-> "admin", beneficiary |-> "beneficiary", mint |-> "mint",
     totalAmount |-> total_amount, claimedAmount |-> 0, startTime |-> start_time,
     cliffDuration |-> cliff_duration, vestingDuration |-> vesting_duration,
     isRevoked |-> FALSE, revokedAmount |-> 0]

\* the handler as a whole: the error, the amount moved into the vault, the account
create_vesting_handler(s, total_amount, start_time, cliff_duration, vesting_duration, now) ==
    LET err == create_vesting_check(total_amount, start_time, cliff_duration,
                                    vesting_duration, now)
    IN  IF err # "Ok"
        THEN [err |-> err, amount |-> 0, schedule |-> s]
        ELSE [err |-> "Ok", amount |-> total_amount,
              schedule |-> new_schedule(total_amount, start_time, cliff_duration,
                                        vesting_duration)]

----------------------------------------------------------------------------
(* claim.rs.  The excerpt shows the transfer of `claimable`; the guards    *)
(* and the update of claimed_amount follow the specification (4.3).        *)

claimable_amount(s, now) ==
    LET vested == calculate_vested_amount(s, now)
    IN  IF vested > s.claimedAmount THEN vested - s.claimedAmount ELSE 0

\* Mutant: a revoked schedule accepts no claim.
claim_handler_refuses_revoked(s, now) ==
    IF s.isRevoked
    THEN [err |-> "VestingRevoked", amount |-> 0, schedule |-> s]
    ELSE IF now < s.startTime + s.cliffDuration
    THEN [err |-> "CliffNotReached", amount |-> 0, schedule |-> s]
    ELSE IF claimable_amount(s, now) = 0
    THEN [err |-> "NothingToClaim", amount |-> 0, schedule |-> s]
    ELSE [err |-> "Ok", amount |-> claimable_amount(s, now),
          schedule |-> [s EXCEPT !.claimedAmount = s.claimedAmount + claimable_amount(s, now)]]

\* Mutant: each claim pays half of what is claimable, rounded up.
claim_handler_pays_half(s, now) ==
    IF now < s.startTime + s.cliffDuration
    THEN [err |-> "CliffNotReached", amount |-> 0, schedule |-> s]
    ELSE IF claimable_amount(s, now) = 0
    THEN [err |-> "NothingToClaim", amount |-> 0, schedule |-> s]
    ELSE LET half == (claimable_amount(s, now) + 1) \div 2
         IN  [err |-> "Ok", amount |-> half,
              schedule |-> [s EXCEPT !.claimedAmount = s.claimedAmount + half]]

\* Mutant: the handler pays all that is vested, whatever has been claimed before.
claim_handler_pays_vested(s, now) ==
    IF now < s.startTime + s.cliffDuration
    THEN [err |-> "CliffNotReached", amount |-> 0, schedule |-> s]
    ELSE IF claimable_amount(s, now) = 0
    THEN [err |-> "NothingToClaim", amount |-> 0, schedule |-> s]
    ELSE [err |-> "Ok", amount |-> calculate_vested_amount(s, now),
          schedule |-> [s EXCEPT !.claimedAmount = calculate_vested_amount(s, now)]]

\* Mutant: claimed_amount is overwritten with the payment instead of increased by it.
claim_handler_overwrites_claimed(s, now) ==
    IF now < s.startTime + s.cliffDuration
    THEN [err |-> "CliffNotReached", amount |-> 0, schedule |-> s]
    ELSE IF claimable_amount(s, now) = 0
    THEN [err |-> "NothingToClaim", amount |-> 0, schedule |-> s]
    ELSE [err |-> "Ok", amount |-> claimable_amount(s, now),
          schedule |-> [s EXCEPT !.claimedAmount = claimable_amount(s, now)]]

\* Mutant: the handler pays but does not add the payment to claimed_amount.
claim_handler_forgets_claimed(s, now) ==
    IF now < s.startTime + s.cliffDuration
    THEN [err |-> "CliffNotReached", amount |-> 0, schedule |-> s]
    ELSE IF claimable_amount(s, now) = 0
    THEN [err |-> "NothingToClaim", amount |-> 0, schedule |-> s]
    ELSE [err |-> "Ok", amount |-> claimable_amount(s, now), schedule |-> s]

\* Mutant: the cliff end itself still counts as before the cliff (<= for <).
claim_handler_cliff_inclusive(s, now) ==
    IF now <= s.startTime + s.cliffDuration
    THEN [err |-> "CliffNotReached", amount |-> 0, schedule |-> s]
    ELSE IF claimable_amount(s, now) = 0
    THEN [err |-> "NothingToClaim", amount |-> 0, schedule |-> s]
    ELSE [err |-> "Ok", amount |-> claimable_amount(s, now),
          schedule |-> [s EXCEPT !.claimedAmount = s.claimedAmount + claimable_amount(s, now)]]

claim_handler(s, now) ==
    IF calculate_vested_amount_err(s, now) # "Ok"
    THEN [err |-> "CalculationOverflow", amount |-> 0, schedule |-> s]
    ELSE IF now < s.startTime + s.cliffDuration
    THEN [err |-> "CliffNotReached", amount |-> 0, schedule |-> s]
    ELSE IF claimable_amount(s, now) = 0
    THEN [err |-> "NothingToClaim", amount |-> 0, schedule |-> s]
    ELSE [err |-> "Ok", amount |-> claimable_amount(s, now),
          schedule |-> [s EXCEPT !.claimedAmount = s.claimedAmount + claimable_amount(s, now)]]

----------------------------------------------------------------------------
(* revoke.rs.  is_fully_vested and calculate_unvested_amount rest on       *)
(* calculate_vested_amount, whose error the handler propagates.            *)

\* Mutant: the admin account is not tied to the schedule, so any signer passes.
revoke_accounts_check_any_signer(s, signer) == "Ok"

\* Revoke accounts: admin is a Signer and the schedule has_one = admin
revoke_accounts_check(s, signer) ==
    IF signer = s.admin THEN "Ok" ELSE "ConstraintHasOne"

\* Mutant: the whole deposit is returned to the admin, whatever has vested.
revoke_handler_returns_total(s, now) ==
    IF s.isRevoked
    THEN [err |-> "VestingRevoked", amount |-> 0, schedule |-> s]
    ELSE IF is_fully_vested(s, now)
    THEN [err |-> "VestingCompleted", amount |-> 0, schedule |-> s]
    ELSE LET unvested == calculate_unvested_amount(s, now)
         IN  [err |-> "Ok", amount |-> s.totalAmount,
              schedule |-> [s EXCEPT !.isRevoked = TRUE, !.revokedAmount = unvested]]

\* Mutant: the fully-vested guard is missing, so a completed schedule can be revoked.
revoke_handler_no_completed_guard(s, now) ==
    IF s.isRevoked
    THEN [err |-> "VestingRevoked", amount |-> 0, schedule |-> s]
    ELSE LET unvested == calculate_unvested_amount(s, now)
         IN  [err |-> "Ok", amount |-> unvested,
              schedule |-> [s EXCEPT !.isRevoked = TRUE, !.revokedAmount = unvested]]

\* Mutant: the unvested amount is computed at start_time instead of at the clock.
revoke_handler_unvested_at_start(s, now) ==
    IF s.isRevoked
    THEN [err |-> "VestingRevoked", amount |-> 0, schedule |-> s]
    ELSE IF is_fully_vested(s, now)
    THEN [err |-> "VestingCompleted", amount |-> 0, schedule |-> s]
    ELSE LET unvested == calculate_unvested_amount(s, s.startTime)
         IN  [err |-> "Ok", amount |-> unvested,
              schedule |-> [s EXCEPT !.isRevoked = TRUE, !.revokedAmount = unvested]]

\* Mutant: the is_revoked guard is missing, so a second revoke recomputes the amount.
revoke_handler_no_revoked_guard(s, now) ==
    IF is_fully_vested(s, now)
    THEN [err |-> "VestingCompleted", amount |-> 0, schedule |-> s]
    ELSE LET unvested == calculate_unvested_amount([s EXCEPT !.isRevoked = FALSE], now)
         IN  [err |-> "Ok", amount |-> unvested,
              schedule |-> [s EXCEPT !.isRevoked = TRUE, !.revokedAmount = unvested]]

\* Mutant: the handler stores the vested amount, not the unvested one, as revoked_amount.
revoke_handler_stores_vested(s, now) ==
    IF s.isRevoked
    THEN [err |-> "VestingRevoked", amount |-> 0, schedule |-> s]
    ELSE IF is_fully_vested(s, now)
    THEN [err |-> "VestingCompleted", amount |-> 0, schedule |-> s]
    ELSE LET unvested == calculate_unvested_amount(s, now)
         IN  [err |-> "Ok", amount |-> unvested,
              schedule |-> [s EXCEPT !.isRevoked = TRUE,
                                     !.revokedAmount = s.totalAmount - unvested]]

\* Mutant: revoking also resets what the beneficiary has claimed.
revoke_handler_resets_claimed(s, now) ==
    IF s.isRevoked
    THEN [err |-> "VestingRevoked", amount |-> 0, schedule |-> s]
    ELSE IF is_fully_vested(s, now)
    THEN [err |-> "VestingCompleted", amount |-> 0, schedule |-> s]
    ELSE LET unvested == calculate_unvested_amount(s, now)
         IN  [err |-> "Ok", amount |-> unvested,
              schedule |-> [s EXCEPT !.isRevoked = TRUE, !.revokedAmount = unvested,
                                     !.claimedAmount = 0]]

\* Mutant: is_revoked is set before the fully-vested check, which then fails.
revoke_handler_marks_before_check(s, now) ==
    IF s.isRevoked
    THEN [err |-> "VestingRevoked", amount |-> 0, schedule |-> s]
    ELSE IF is_fully_vested(s, now)
    THEN [err |-> "VestingCompleted", amount |-> 0,
          schedule |-> [s EXCEPT !.isRevoked = TRUE]]
    ELSE LET unvested == calculate_unvested_amount(s, now)
         IN  [err |-> "Ok", amount |-> unvested,
              schedule |-> [s EXCEPT !.isRevoked = TRUE, !.revokedAmount = unvested]]

revoke_handler(s, now) ==
    IF s.isRevoked
    THEN [err |-> "VestingRevoked", amount |-> 0, schedule |-> s]
    ELSE IF calculate_vested_amount_err(s, now) # "Ok"
    THEN [err |-> "CalculationOverflow", amount |-> 0, schedule |-> s]
    ELSE IF is_fully_vested(s, now)
    THEN [err |-> "VestingCompleted", amount |-> 0, schedule |-> s]
    ELSE LET unvested == calculate_unvested_amount(s, now)
         IN  [err |-> "Ok", amount |-> unvested,
              schedule |-> [s EXCEPT !.isRevoked = TRUE, !.revokedAmount = unvested]]

----------------------------------------------------------------------------
(* The instructions.                                                       *)

Init ==
    /\ schedule = NoSchedule
    /\ vault = 0
    /\ adminTokens = InitialAdminTokens
    /\ beneficiaryTokens = 0
    /\ clock = 0
    /\ last = NoCall
    /\ revokedAt = -1
    /\ pending = [c \in Clients |-> NoTransition]
    /\ staleCommitted = FALSE
    /\ loading = FALSE
    /\ calls = [i \in CallIds |-> NoHookCall]

\* The validator's clock moves forward between instructions; `last` is the instruction
\* executed at the current clock value, so a new clock value has none yet, and a claim
\* computed for the old clock value is dropped.
Tick ==
    /\ \E t \in TimePoints : t > clock /\ clock' = t
    /\ last' = NoCall
    /\ pending' = [c \in Clients |-> NoTransition]
    /\ UNCHANGED <<schedule, vault, adminTokens, beneficiaryTokens, revokedAt, staleCommitted>>
    /\ UNCHANGED hookVars

\* create_vesting_schedule.  With the account already created, the attempts modelled
\* are those for another beneficiary's PDA that fail validation (as the tests submit
\* them): they must leave this account alone.
CreateTx(amounts, starts, cliffs, durations) ==
    \E total_amount \in amounts, start_time \in starts,
       cliff_duration \in cliffs, vesting_duration \in durations :
        LET r == create_vesting_handler(schedule, total_amount, start_time,
                                        cliff_duration, vesting_duration, clock)
        IN  /\ r.err = "Ok" => (~schedule.initialized /\ adminTokens >= total_amount)
            /\ schedule' = r.schedule
            /\ vault' = vault + r.amount
            /\ adminTokens' = adminTokens - r.amount
            /\ last' = [op |-> "create", signer |-> "admin", err |-> r.err, amount |-> r.amount,
                        args |-> [totalAmount |-> total_amount, startTime |-> start_time,
                                  cliffDuration |-> cliff_duration,
                                  vestingDuration |-> vesting_duration],
                        pre |-> schedule]
            /\ UNCHANGED <<beneficiaryTokens, clock, revokedAt, pending, staleCommitted>>

\* the instruction submitted outside the hook
CreateWith(amounts, starts, cliffs, durations) ==
    CreateTx(amounts, starts, cliffs, durations) /\ UNCHANGED hookVars

Create == CreateWith(Amounts, StartTimes, Cliffs, Durations)

\* the same instruction with every argument the creation specification draws
CreateAny == CreateWith(Amounts, StartTimes, Cliffs, AllDurations)

\* create_vesting_schedule with arguments the validation accepts until start_time
CreateValid == CreateWith({MaxAmount}, StartTimes, {0, 43200}, {MIN_VESTING_DURATION})

\* claim, signed by the beneficiary
ClaimTx ==
    /\ schedule.initialized
    /\ LET r == claim_handler(schedule, clock)
       IN  /\ schedule' = r.schedule
           /\ vault' = vault - r.amount
           /\ beneficiaryTokens' = beneficiaryTokens + r.amount
           /\ last' = [op |-> "claim", signer |-> "beneficiary", err |-> r.err,
                       amount |-> r.amount,
                       args |-> NoArgs, pre |-> schedule]
    /\ UNCHANGED <<adminTokens, clock, revokedAt, pending, staleCommitted>>

Claim == ClaimTx /\ UNCHANGED hookVars

\* revoke, signed by the admin
RevokeTx ==
    /\ schedule.initialized
    /\ LET r == revoke_handler(schedule, clock)
       IN  /\ schedule' = r.schedule
           /\ vault' = vault - r.amount
           /\ adminTokens' = adminTokens + r.amount
           /\ revokedAt' = IF r.err = "Ok" THEN clock ELSE revokedAt
           /\ last' = [op |-> "revoke", signer |-> "admin", err |-> r.err,
                       amount |-> r.amount,
                       args |-> NoArgs, pre |-> schedule]
    /\ UNCHANGED <<beneficiaryTokens, clock, pending, staleCommitted>>

Revoke == RevokeTx /\ UNCHANGED hookVars

\* revoke submitted by any identity: the accounts are validated before the handler runs
RevokeAs ==
    /\ schedule.initialized
    /\ \E signer \in Signers :
          LET check == revoke_accounts_check(schedule, signer)
              r == IF check = "Ok" THEN revoke_handler(schedule, clock)
                   ELSE [err |-> check, amount |-> 0, schedule |-> schedule]
          IN  /\ schedule' = r.schedule
              /\ vault' = vault - r.amount
              /\ adminTokens' = adminTokens + r.amount
              /\ revokedAt' = IF r.err = "Ok" THEN clock ELSE revokedAt
              /\ last' = [op |-> "revoke", signer |-> signer, err |-> r.err,
                          amount |-> r.amount, args |-> NoArgs, pre |-> schedule]
    /\ UNCHANGED <<beneficiaryTokens, clock, pending, staleCommitted>>
    /\ UNCHANGED hookVars

Next == Tick \/ Create \/ Claim \/ Revoke

\* The life cycle of a schedule: creation, claims and one revocation as time passes.
Spec == Init /\ [][Next]_vars

NextCreate == Tick \/ CreateAny

\* The life cycle when time keeps passing and the beneficiary keeps claiming: the clock
\* of the cluster advances, and a claim that would change something is eventually made.
SpecLive == Spec /\ WF_vars(Tick) /\ WF_vars(Claim)

NextAuth == Tick \/ CreateValid \/ Claim \/ RevokeAs

\* The life cycle with the revoke instruction submitted by anyone.
SpecAuth == Init /\ [][NextAuth]_vars

\* create_vesting_schedule with start times up to the end of the i64
CreateWide == CreateWith({MaxAmount}, WideStartTimes, {0, 43200}, {MIN_VESTING_DURATION})

NextWide == Tick \/ CreateWide \/ Claim \/ Revoke

\* The life cycle of schedules that start at any time an i64 holds.
SpecWide == Init /\ [][NextWide]_vars

\* Creation alone, with every argument of the validation drawn.
SpecCreate == Init /\ [][NextCreate]_vars

----------------------------------------------------------------------------
(* A schedule store without serialisation (specification, section 5): the  *)
(* claim transition is computed from a snapshot of the record and          *)
(* committed in a second step, so that two clients can compute from the    *)
(* same snapshot.  The program itself runs the handler in one transaction. *)

\* a client reads the record and computes the claim transition at the current time
ComputeClaim(c) ==
    /\ schedule.initialized
    /\ ~pending[c].computed
    /\ pending' = [pending EXCEPT ![c] = [computed |-> TRUE, snapshot |-> schedule,
                                          result |-> claim_handler(schedule, clock)]]
    /\ UNCHANGED <<schedule, vault, adminTokens, beneficiaryTokens, clock, last, revokedAt,
                   staleCommitted>>
    /\ UNCHANGED hookVars

\* the computed transition is committed: a successful one overwrites the record with the
\* computed one and pays the computed amount, if the vault holds it; a failed one
\* changes nothing
CommitClaim(c) ==
    /\ pending[c].computed
    /\ LET r == pending[c].result
           paid == r.err = "Ok" /\ vault >= r.amount
       IN  /\ schedule' = IF paid THEN r.schedule ELSE schedule
           /\ vault' = IF paid THEN vault - r.amount ELSE vault
           /\ beneficiaryTokens' = IF paid THEN beneficiaryTokens + r.amount
                                    ELSE beneficiaryTokens
           /\ staleCommitted' = (staleCommitted \/ (paid /\ pending[c].snapshot # schedule))
           /\ last' = [op |-> "commit", signer |-> "beneficiary",
                       err |-> IF r.err = "Ok" /\ ~paid THEN "InsufficientFunds" ELSE r.err,
                       amount |-> IF paid THEN r.amount ELSE 0,
                       args |-> NoArgs, pre |-> pending[c].snapshot]
    /\ pending' = [pending EXCEPT ![c] = NoTransition]
    /\ UNCHANGED <<adminTokens, clock, revokedAt>>
    /\ UNCHANGED hookVars

NextStore ==
    \/ Tick
    \/ CreateValid
    \/ \E c \in Clients : ComputeClaim(c)
    \/ \E c \in Clients : CommitClaim(c)

\* Claims through the two-step store.
SpecStore == Init /\ [][NextStore]_vars

----------------------------------------------------------------------------
(* frontend/src/hooks/useVesting.ts: one instance of the hook.  create,     *)
(* claim and revoke are async functions: each sets loading, awaits the      *)
(* transaction, on success awaits refreshSchedules, and clears loading in   *)
(* its finally block.  A call made without a connected wallet returns       *)
(* before it touches the state, so it is no step of the model.              *)

\* create / claim / revoke up to the first await: setLoading(true) and the transaction
\* is sent
StartCall(i, op) ==
    /\ calls[i].phase = "idle"
    /\ loading' = TRUE
    /\ calls' = [calls EXCEPT ![i] = [op |-> op, phase |-> "rpc"]]
    /\ UNCHANGED programVars

\* the finally block of call i: setLoading(false), and the call is over
FinishCall(i) ==
    /\ loading' = FALSE
    /\ calls' = [calls EXCEPT ![i] = NoHookCall]

\* the instruction that call i submitted, as the program executes it
SubmittedTx(i) ==
    \/ calls[i].op = "create" /\ CreateTx({MaxAmount}, StartTimes, {0, 43200},
                                          {MIN_VESTING_DURATION})
    \/ calls[i].op = "claim" /\ ClaimTx
    \/ calls[i].op = "revoke" /\ RevokeTx

\* the awaited transaction of call i settles: executed without error, the call goes on
\* to await refreshSchedules; executed with an error, or rejected before the program
\* ran (wallet, network, missing account), the catch and finally blocks run
RpcResolves(i) ==
    /\ calls[i].phase = "rpc"
    /\ \/ /\ SubmittedTx(i)
          /\ IF last'.err = "Ok"
                THEN /\ calls' = [calls EXCEPT ![i].phase = "refresh"]
                     /\ loading' = loading
                ELSE FinishCall(i)
       \/ /\ UNCHANGED programVars
          /\ FinishCall(i)

\* the awaited refreshSchedules of call i returns: the finally block runs
RefreshResolves(i) ==
    /\ calls[i].phase = "refresh"
    /\ FinishCall(i)
    /\ UNCHANGED programVars

NextHook ==
    \/ Tick
    \/ \E i \in CallIds, op \in HookOps : StartCall(i, op)
    \/ \E i \in CallIds : RpcResolves(i)
    \/ \E i \in CallIds : RefreshResolves(i)

\* The operations of the program started through the hook.
SpecHook == Init /\ [][NextHook]_vars
----------------------------------------------------------------------------
(* Properties.                                                             *)

\* the reads that come no earlier than the last committed instruction
LaterReads == {now \in TimePoints : now >= clock}

\* C1: claims never outrun vesting.  In every state reached by create followed by any
\* sequence of claims and revokes at non-decreasing times, claimedAmount is at most the
\* vested amount at every read time not earlier than the last instruction, before and
\* after revocation, for the program's and for the client's computation.
C1_ClaimsNeverOutrunVesting ==
    schedule.initialized =>
        \A now \in LaterReads :
            /\ schedule.claimedAmount <= calculate_vested_amount(schedule, now)
            /\ schedule.claimedAmount <= calculateVestedAmount(schedule, now)

\* C1 happens: a revoked schedule whose beneficiary had claimed all that was vested
C1_Witness ==
    /\ schedule.isRevoked
    /\ schedule.claimedAmount > 0
    /\ schedule.claimedAmount = calculate_vested_amount(schedule, clock)

\* C2: claiming stays possible after revocation.  A claim on a revoked schedule at a
\* time not before the cliff end succeeds while claimedAmount is below
\* totalAmount - revokedAmount and pays exactly the difference; once claimedAmount has
\* reached totalAmount - revokedAmount every further claim fails with NothingToClaim.
C2_ClaimAfterRevoke ==
    (/\ last.op = "claim"
     /\ last.pre.isRevoked
     /\ clock >= last.pre.startTime + last.pre.cliffDuration)
    => LET owed == last.pre.totalAmount - last.pre.revokedAmount
       IN  /\ last.pre.claimedAmount < owed =>
                /\ last.err = "Ok"
                /\ last.amount = owed - last.pre.claimedAmount
                /\ schedule.claimedAmount = owed
                /\ beneficiaryTokens = owed
           /\ last.pre.claimedAmount = owed =>
                /\ last.err = "NothingToClaim"
                /\ last.amount = 0
                /\ beneficiaryTokens = owed

\* C2 happens: a claim on a revoked schedule paid a positive amount
C2_Witness ==
    /\ last.op = "claim"
    /\ last.pre.isRevoked
    /\ last.err = "Ok"
    /\ last.amount > 0

\* C3: revoke-then-claim.  After a successful revoke at time r the claimable amount at
\* every t >= r is (totalAmount - revokedAmount) - claimedAmount: it does not depend on t.
C3_RevokeThenClaimable ==
    schedule.isRevoked =>
        \A t \in TimePoints :
            t >= revokedAt =>
                /\ calculateClaimableAmount(schedule, t)
                     = (schedule.totalAmount - schedule.revokedAmount) - schedule.claimedAmount
                /\ claimable_amount(schedule, t)
                     = (schedule.totalAmount - schedule.revokedAmount) - schedule.claimedAmount

\* C3 happens: revoked after a claim, with more vested since, read at a later time
C3_Witness ==
    /\ schedule.isRevoked
    /\ schedule.claimedAmount > 0
    /\ clock > revokedAt
    /\ calculateClaimableAmount(schedule, clock) > 0

\* the schedule as it was before any revocation
Unrevoked(s) == [s EXCEPT !.isRevoked = FALSE, !.revokedAmount = 0]

\* what the claim says of a revocation, but for the error's name: from the successful
\* revoke on, isRevoked is true and revokedAmount is totalAmount minus the amount vested
\* at the revocation time; a revoke of a revoked schedule fails and changes nothing
RevocationIsFinal(errorName) ==
    /\ revokedAt # -1 =>
          /\ schedule.isRevoked
          /\ schedule.revokedAmount
               = schedule.totalAmount - calculate_vested_amount(Unrevoked(schedule), revokedAt)
    /\ schedule.isRevoked => revokedAt # -1
    /\ (last.op = "revoke" /\ last.pre.isRevoked) =>
          /\ last.err = errorName
          /\ last.amount = 0
          /\ schedule = last.pre

ScenarioA ==
    [initialized |-> TRUE, admin |-> "admin", beneficiary |-> "beneficiary", mint |-> "mint",
     totalAmount |-> 1000, claimedAmount |-> 0, startTime |-> 100, cliffDuration |-> 100,
     vestingDuration |-> 1000, isRevoked |-> FALSE, revokedAmount |-> 0]

\* Scenario E: a revoke of Scenario A's schedule 500 seconds after its start returns
\* 500, and the vested amount stays 500 at later times
ScenarioE ==
    LET r == revoke_handler(ScenarioA, ScenarioA.startTime + 500)
    IN  /\ r.err = "Ok"
        /\ r.amount = 500
        /\ r.schedule.isRevoked
        /\ r.schedule.revokedAmount = 500
        /\ \A d \in {500, 501, 999, 1000, 5000} :
              /\ calculate_vested_amount(r.schedule, ScenarioA.startTime + d) = 500
              /\ calculateVestedAmount(r.schedule, ScenarioA.startTime + d) = 500

\* C5: a successful revoke at time now returns unvested = totalAmount - vestedAmount(now),
\* which is positive and reaches the admin's token account, and sets isRevoked and
\* revokedAmount = unvested; afterwards the vested amount at every later time is
\* totalAmount - unvested (Scenario E).
C5_RevokeReturnsUnvested ==
    /\ (last.op = "revoke" /\ last.err = "Ok") =>
          /\ last.amount = last.pre.totalAmount - calculate_vested_amount(last.pre, clock)
          /\ last.amount > 0
          /\ schedule.isRevoked
          /\ schedule.revokedAmount = last.amount
          /\ adminTokens = InitialAdminTokens - schedule.totalAmount + last.amount
    /\ schedule.isRevoked =>
          \A t \in LaterReads :
              /\ calculate_vested_amount(schedule, t)
                   = schedule.totalAmount - schedule.revokedAmount
              /\ calculateVestedAmount(schedule, t)
                   = schedule.totalAmount - schedule.revokedAmount
    /\ ScenarioE

\* C5 happens: a revoke half way through the vesting returned half of the total
C5_Witness ==
    /\ last.op = "revoke"
    /\ last.err = "Ok"
    /\ clock = schedule.startTime + 43200
    /\ last.amount * 2 = schedule.totalAmount

\* the fields no instruction changes after creation
Immutables(s) ==
    <<s.initialized, s.admin, s.beneficiary, s.mint, s.totalAmount, s.startTime,
      s.cliffDuration, s.vestingDuration>>

\* C6: frame conditions.  A revoke leaves claimedAmount and grantor, beneficiary, asset,
\* totalAmount, startTime, cliffDuration and vestingDuration unchanged; a claim changes
\* only claimedAmount and leaves isRevoked, revokedAmount and the same fields unchanged.
C6_FrameConditions ==
    /\ last.op = "revoke" =>
          /\ schedule.claimedAmount = last.pre.claimedAmount
          /\ Immutables(schedule) = Immutables(last.pre)
    /\ last.op = "claim" =>
          /\ schedule.isRevoked = last.pre.isRevoked
          /\ schedule.revokedAmount = last.pre.revokedAmount
          /\ Immutables(schedule) = Immutables(last.pre)

\* C6 happens: a successful revoke of a schedule with tokens already claimed
C6_Witness ==
    /\ last.op = "revoke"
    /\ last.err = "Ok"
    /\ schedule.claimedAmount > 0

\* C7: every failing instruction leaves the schedule unchanged: whenever create, claim or
\* revoke returns an error, no field of the stored schedule changes and no amount leaves
\* or enters the vault, the admin's or the beneficiary's token account.
C7_FailureChangesNothing ==
    [][(last'.op # "none" /\ last'.err # "Ok") =>
          /\ schedule' = schedule
          /\ vault' = vault
          /\ adminTokens' = adminTokens
          /\ beneficiaryTokens' = beneficiaryTokens
          /\ revokedAt' = revokedAt
          /\ last'.amount = 0
          /\ last'.pre = schedule]_vars

\* C7 happens: a revoke refused on a fully vested schedule with tokens claimed and tokens
\* left in the vault
C7_Witness ==
    /\ last.op = "revoke"
    /\ last.err = "VestingCompleted"
    /\ schedule.claimedAmount > 0
    /\ vault > 0

C9_CliffWithinFraction ==
    /\ schedule.initialized =>
          schedule.cliffDuration * 100 <= schedule.vestingDuration * MAX_CLIFF_PERCENTAGE
    /\ (/\ last.op = "create"
        /\ last.args.totalAmount > 0
        /\ last.args.vestingDuration >= MIN_VESTING_DURATION
        /\ last.args.vestingDuration <= MAX_VESTING_DURATION
        /\ last.args.cliffDuration <= last.args.vestingDuration
        /\ last.args.cliffDuration * 100 > last.args.vestingDuration * MAX_CLIFF_PERCENTAGE)
       => last.err = "CliffPercentageTooHigh"

C11_CliffNeverNegative ==
    /\ (last.op = "create" /\ last.args.cliffDuration < 0) => last.err # "Ok"
    /\ schedule.initialized =>
          /\ schedule.cliffDuration >= 0
          /\ schedule.startTime <= schedule.startTime + schedule.cliffDuration
          /\ schedule.startTime + schedule.cliffDuration
               <= schedule.startTime + schedule.vestingDuration

\* C11 happens: a create with a negative cliff that passes every other check is refused
\* by the product's overflow
C11_Witness ==
    /\ last.op = "create"
    /\ last.args.cliffDuration < 0
    /\ last.args.totalAmount > 0
    /\ last.args.vestingDuration >= MIN_VESTING_DURATION
    /\ last.args.vestingDuration <= MAX_VESTING_DURATION
    /\ last.args.startTime > clock
    /\ last.err = "CalculationOverflow"
    /\ ~schedule.initialized

\* the amount vested at the very end of the cliff
CliffAmount(s) == (s.totalAmount * s.cliffDuration) \div s.vestingDuration

\* Scenario D: Scenario A's schedule refuses a claim one second before its cliff ends,
\* revoked or not, and pays 100 at the cliff end
ScenarioD ==
    LET T == ScenarioA.startTime
        revokedEarly == revoke_handler(ScenarioA, T + 50).schedule
    IN  /\ claim_handler(ScenarioA, T + 99).err = "CliffNotReached"
        /\ claim_handler(revokedEarly, T + 99).err = "CliffNotReached"
        /\ claim_handler(ScenarioA, T + 100).err = "Ok"
        /\ claim_handler(ScenarioA, T + 100).amount = 100
        /\ claim_handler(ScenarioA, T + 100).schedule.claimedAmount = 100

\* what the claim says of a claim around the cliff end; revokedToo tells whether the
\* payment at the cliff end is also promised for a revoked schedule
ClaimAtCliff(revokedToo) ==
    /\ last.op = "claim" =>
          LET s == last.pre
              cliffEnd == s.startTime + s.cliffDuration
          IN  /\ last.err = "CliffNotReached" <=> clock < cliffEnd
              /\ (/\ clock = cliffEnd
                  /\ revokedToo \/ ~s.isRevoked
                  /\ CliffAmount(s) > 0
                  /\ s.claimedAmount = 0)
                 => /\ last.err = "Ok"
                    /\ last.amount = CliffAmount(s)
                    /\ schedule.claimedAmount = CliffAmount(s)
                    /\ beneficiaryTokens = CliffAmount(s)
    /\ ScenarioD

\* C12 (as amended): a claim fails with CliffNotReached exactly when
\* now < startTime + cliffDuration (the check precedes NothingToClaim and does not depend
\* on isRevoked); at now = startTime + cliffDuration it is no longer CliffNotReached and,
\* on a schedule that has not been revoked, when the cliff-computed amount
\* floor(totalAmount * cliffDuration / vestingDuration) is positive and unclaimed, the
\* claim succeeds with that amount (Scenario A at T+100 yields 100).
C12_ClaimAtCliff == ClaimAtCliff(FALSE)

\* C12 as stated: the payment at the cliff end is promised whether or not the schedule
\* has been revoked.
C12_AsStated == ClaimAtCliff(TRUE)

\* C12 happens: the first claim, at the second the cliff ends, paid the cliff amount
C12_Witness ==
    /\ last.op = "claim"
    /\ clock = last.pre.startTime + last.pre.cliffDuration
    /\ last.pre.cliffDuration > 0
    /\ last.err = "Ok"
    /\ last.amount = CliffAmount(last.pre)
    /\ last.amount > 0

\* the vested amount of a live schedule as the specification writes it
PiecewiseVested(s, now) ==
    IF now < s.startTime + s.cliffDuration THEN 0
    ELSE IF now >= s.startTime + s.vestingDuration THEN s.totalAmount
    ELSE (s.totalAmount * (now - s.startTime)) \div s.vestingDuration

\* Scenario A: 0 at T+50, 100 at T+100, 500 at T+500 and 1000 at T+1000
ScenarioAVested ==
    LET T == ScenarioA.startTime
        expected == [d \in {50, 100, 500, 1000} |->
                        IF d = 50 THEN 0 ELSE IF d = 100 THEN 100
                        ELSE IF d = 500 THEN 500 ELSE 1000]
    IN  \A d \in DOMAIN expected :
            /\ calculate_vested_amount(ScenarioA, T + d) = expected[d]
            /\ calculateVestedAmount(ScenarioA, T + d) = expected[d]

\* C13: for a schedule that is not revoked the vested amount at now is 0 when
\* now < startTime + cliffDuration, totalAmount when now >= startTime + vestingDuration,
\* and floor(totalAmount * (now - startTime) / vestingDuration) otherwise (the elapsed
\* time is measured from startTime, not from the cliff end), in the program and in the
\* client; Scenario A gives 0, 100, 500 and 1000 at T+50, T+100, T+500 and T+1000.
C13_VestedPiecewise ==
    /\ (schedule.initialized /\ ~schedule.isRevoked) =>
          \A now \in TimePoints :
              /\ calculate_vested_amount(schedule, now) = PiecewiseVested(schedule, now)
              /\ calculateVestedAmount(schedule, now) = PiecewiseVested(schedule, now)
    /\ ScenarioAVested

\* C13 happens: a live schedule with a cliff, read two thirds of the way through, where
\* the quotient is rounded down
C13_Witness ==
    /\ schedule.initialized
    /\ ~schedule.isRevoked
    /\ schedule.cliffDuration > 0
    /\ clock = schedule.startTime + 57600
    /\ calculate_vested_amount(schedule, clock) = 666
    /\ calculateVestedAmount(schedule, clock) = 666

\* C14: for every schedule accepted by create the vested amount is non-decreasing in t
\* while the schedule is not revoked (t1 <= t2 implies vested(t1) <= vested(t2)), and
\* after revocation it is the same value for every t; in the program and in the client.
C14_VestedMonotone ==
    schedule.initialized =>
        \A t1, t2 \in TimePoints :
            t1 <= t2 =>
                IF schedule.isRevoked
                THEN /\ calculate_vested_amount(schedule, t1)
                          = calculate_vested_amount(schedule, t2)
                     /\ calculateVestedAmount(schedule, t1)
                          = calculateVestedAmount(schedule, t2)
                ELSE /\ calculate_vested_amount(schedule, t1)
                          <= calculate_vested_amount(schedule, t2)
                     /\ calculateVestedAmount(schedule, t1)
                          <= calculateVestedAmount(schedule, t2)

\* C14 happens: a schedule revoked in its linear phase, whose vested amount had grown
\* from the cliff end to the revocation and is read after the vesting end
C14_Witness ==
    /\ schedule.isRevoked
    /\ revokedAt > schedule.startTime + schedule.cliffDuration
    /\ calculate_vested_amount(Unrevoked(schedule), schedule.startTime + schedule.cliffDuration)
         < calculate_vested_amount(Unrevoked(schedule), revokedAt)
    /\ clock >= schedule.startTime + schedule.vestingDuration
    /\ calculate_vested_amount(schedule, clock) > 0
    /\ calculate_vested_amount(schedule, clock) < schedule.totalAmount

\* C15: the vested amount is at most totalAmount in every reachable state of the
\* schedule, revoked or not, at every time; in the linear branch (a live schedule between
\* its cliff end and its vesting end) it is strictly below totalAmount.
C15_VestedAtMostTotal ==
    schedule.initialized =>
        \A t \in TimePoints :
            /\ calculate_vested_amount(schedule, t) <= schedule.totalAmount
            /\ calculateVestedAmount(schedule, t) <= schedule.totalAmount
            /\ (/\ ~schedule.isRevoked
                /\ t >= schedule.startTime + schedule.cliffDuration
                /\ t < schedule.startTime + schedule.vestingDuration)
               => /\ calculate_vested_amount(schedule, t) < schedule.totalAmount
                  /\ calculateVestedAmount(schedule, t) < schedule.totalAmount

\* C15 happens: a live schedule one second before its vesting end has all but one unit
\* vested
C15_Witness ==
    /\ schedule.initialized
    /\ ~schedule.isRevoked
    /\ clock = schedule.startTime + schedule.vestingDuration - 1
    /\ calculate_vested_amount(schedule, clock) = schedule.totalAmount - 1

\* C16: idempotence of denial.  When a claim has succeeded at time t, a second claim on
\* the updated schedule at the same t fails with NothingToClaim and pays nothing, the
\* client's claimable amount of the updated schedule being zero.
C16_SecondClaimDenied ==
    [][(last.op = "claim" /\ last.err = "Ok" /\ last'.op = "claim") =>
          /\ clock' = clock
          /\ last'.pre = schedule
          /\ last'.err = "NothingToClaim"
          /\ last'.amount = 0
          /\ schedule' = schedule
          /\ vault' = vault
          /\ beneficiaryTokens' = beneficiaryTokens
          /\ calculateClaimableAmount(schedule, clock) = 0]_vars

\* C16 happens: a claim refused with NothingToClaim in the linear phase of a live
\* schedule, all that is vested at that second having just been paid
C16_Witness ==
    /\ last.op = "claim"
    /\ last.err = "NothingToClaim"
    /\ ~schedule.isRevoked
    /\ clock > schedule.startTime + schedule.cliffDuration
    /\ clock < schedule.startTime + schedule.vestingDuration
    /\ schedule.claimedAmount > 0
    /\ schedule.claimedAmount = calculate_vested_amount(schedule, clock)
    /\ beneficiaryTokens = schedule.claimedAmount

\* C17: a successful claim at time now returns amount = claimableAmount(schedule, now),
\* which is positive, and a schedule with claimedAmount = old claimedAmount + amount, the
\* amount moving from the vault to the beneficiary; consequently claimedAmount never
\* decreases, whatever the sequence of instructions.
C17_ClaimAddsClaimable ==
    [][/\ (last'.op = "claim" /\ last'.err = "Ok") =>
             /\ last'.amount = claimable_amount(schedule, clock)
             /\ last'.amount = calculateClaimableAmount(schedule, clock)
             /\ last'.amount > 0
             /\ schedule'.claimedAmount = schedule.claimedAmount + last'.amount
             /\ beneficiaryTokens' = beneficiaryTokens + last'.amount
             /\ vault' = vault - last'.amount
       /\ schedule'.claimedAmount >= schedule.claimedAmount]_vars

\* C17 happens: a second successful claim, on a schedule with tokens already claimed
C17_Witness ==
    /\ last.op = "claim"
    /\ last.err = "Ok"
    /\ last.pre.claimedAmount > 0
    /\ last.amount > 0
    /\ schedule.claimedAmount = last.pre.claimedAmount + last.amount

\* max(0, n)
Max0(n) == IF n > 0 THEN n ELSE 0

\* schedule values beyond those the instructions produce: more claimed than vested,
\* revoked with any revoked amount
AnySchedules ==
    {[ScenarioA EXCEPT !.claimedAmount = c, !.isRevoked = r, !.revokedAmount = a] :
        c \in {0, 100, 500, 1000}, r \in BOOLEAN, a \in {0, 400, 1000}}

\* C18: claimableAmount(schedule, now) = max(0, vestedAmount(schedule, now) -
\* claimedAmount): the result is never negative, for every schedule value and every
\* time, the times earlier than a previous claim included.
C18_ClaimableIsFloored ==
    /\ schedule.initialized =>
          \A t \in TimePoints :
              /\ calculateClaimableAmount(schedule, t)
                   = Max0(calculateVestedAmount(schedule, t) - schedule.claimedAmount)
              /\ calculateClaimableAmount(schedule, t) >= 0
              /\ claimable_amount(schedule, t) = calculateClaimableAmount(schedule, t)
    /\ \A s \in AnySchedules :
          \A d \in {0, 50, 100, 500, 1000, 2000} :
              LET t == s.startTime + d
              IN  /\ calculateClaimableAmount(s, t)
                       = Max0(calculateVestedAmount(s, t) - s.claimedAmount)
                  /\ calculateClaimableAmount(s, t) >= 0
                  /\ claimable_amount(s, t) = calculateClaimableAmount(s, t)

\* C18 happens: a live schedule read at a time before its last claim, when less was
\* vested than has been claimed since
C18_Witness ==
    /\ schedule.initialized
    /\ ~schedule.isRevoked
    /\ \E t \in TimePoints :
          /\ t < clock
          /\ t >= schedule.startTime + schedule.cliffDuration
          /\ calculateVestedAmount(schedule, t) > 0
          /\ calculateVestedAmount(schedule, t) < schedule.claimedAmount
          /\ calculateClaimableAmount(schedule, t) = 0

\* C19: a revoke of a schedule that is not revoked fails with VestingCompleted exactly
\* when the vested amount at now is totalAmount, that is when
\* now >= startTime + vestingDuration, and succeeds from every other phase: not started,
\* cliff pending and vesting.
C19_RevokeUnlessCompleted ==
    (last.op = "revoke" /\ ~last.pre.isRevoked) =>
        LET s == last.pre
            completed == clock >= s.startTime + s.vestingDuration
        IN  /\ completed <=> calculate_vested_amount(s, clock) = s.totalAmount
            /\ completed <=> calculateVestedAmount(s, clock) = s.totalAmount
            /\ last.err = "VestingCompleted" <=> completed
            /\ last.err = "Ok" <=> ~completed
            /\ last.err = "Ok" => schedule.isRevoked

\* C19 happens: a revoke refused at the very second the vesting ends
C19_Witness ==
    /\ last.op = "revoke"
    /\ ~last.pre.isRevoked
    /\ clock = last.pre.startTime + last.pre.vestingDuration
    /\ last.err = "VestingCompleted"

\* the phases from which a revoke succeeded
C19_RevokedNotStarted ==
    last.op = "revoke" /\ last.err = "Ok" /\ clock < last.pre.startTime

C19_RevokedCliffPending ==
    /\ last.op = "revoke" /\ last.err = "Ok"
    /\ clock >= last.pre.startTime
    /\ clock < last.pre.startTime + last.pre.cliffDuration

C19_RevokedVesting ==
    /\ last.op = "revoke" /\ last.err = "Ok"
    /\ clock >= last.pre.startTime + last.pre.cliffDuration
    /\ clock = last.pre.startTime + last.pre.vestingDuration - 1

\* C20: serialisation is required for claim safety.  While every committed claim was
\* computed from the latest committed record, the total paid to the beneficiary is the
\* recorded claimedAmount and never exceeds the amount vested at the current time; when
\* two claims computed from the same snapshot at the same time are both committed, the
\* beneficiary is paid twice the claimable amount and the total paid exceeds the vested
\* amount.
C20_SerialisationRequired ==
    /\ [](~staleCommitted =>
            /\ beneficiaryTokens = schedule.claimedAmount
            /\ schedule.initialized =>
                  beneficiaryTokens <= calculate_vested_amount(schedule, clock))
    /\ [][(/\ \E c \in Clients : CommitClaim(c)
           /\ last.op = "commit" /\ last.err = "Ok"
           /\ last'.op = "commit" /\ last'.err = "Ok"
           /\ last'.pre = last.pre)
          => /\ staleCommitted'
             /\ last'.amount = claimable_amount(last.pre, clock)
             /\ beneficiaryTokens' = (beneficiaryTokens - last.amount) + 2 * last'.amount
             /\ beneficiaryTokens' > calculate_vested_amount(schedule', clock')]_vars

\* C20 happens: two claims computed from the same snapshot were both committed and the
\* beneficiary holds twice what the record says was claimed
C20_Witness ==
    /\ last.op = "commit"
    /\ last.err = "Ok"
    /\ staleCommitted
    /\ schedule.claimedAmount > 0
    /\ beneficiaryTokens = 2 * schedule.claimedAmount
    /\ beneficiaryTokens > calculate_vested_amount(schedule, clock)

\* C21: only the schedule's admin can revoke.  A revoke submitted by any identity other
\* than the schedule's admin fails, and the schedule (isRevoked, revokedAmount), the vault
\* balance and the token accounts are unchanged; a revoke that succeeds was signed by
\* the admin.
C21_OnlyAdminRevokes ==
    [][last'.op = "revoke" =>
          /\ last'.signer # schedule.admin =>
                /\ last'.err # "Ok"
                /\ last'.amount = 0
                /\ schedule' = schedule
                /\ vault' = vault
                /\ adminTokens' = adminTokens
                /\ beneficiaryTokens' = beneficiaryTokens
          /\ (schedule'.isRevoked /\ ~schedule.isRevoked) => last'.signer = schedule.admin]_vars

\* C21 happens: the beneficiary submitted a revoke that the admin could have made, on a
\* schedule with tokens in the vault
C21_Witness ==
    /\ last.op = "revoke"
    /\ last.signer = "beneficiary"
    /\ last.err = "ConstraintHasOne"
    /\ ~schedule.isRevoked
    /\ revoke_handler(schedule, clock).err = "Ok"
    /\ vault > 0

\* C22: no arithmetic step of the vested amount, of claim or of revoke wraps or
\* saturates.  In every reachable state revokedAmount <= totalAmount, so the revoked
\* branch's saturating subtraction is never clamped; a cliff end or a vesting end that
\* the i64 does not hold makes the computation, and the claim or revoke that needs it,
\* return CalculationOverflow with nothing changed; and where the linear branch is
\* reached, the unchecked difference current_time - start_time is not negative and the
\* quotient fits the amount.
C22_NoWrapNoSaturate ==
    /\ schedule.initialized =>
          /\ schedule.revokedAmount <= schedule.totalAmount
          /\ schedule.claimedAmount <= schedule.totalAmount
          /\ saturating_sub(schedule.totalAmount, schedule.revokedAmount)
               = schedule.totalAmount - schedule.revokedAmount
          /\ \A t \in TimePoints :
                LET s == schedule
                    cliffFits == s.startTime + s.cliffDuration <= MaxTimestamp
                    endFits == s.startTime + s.vestingDuration <= MaxTimestamp
                IN  /\ (~s.isRevoked /\ ~cliffFits) =>
                          calculate_vested_amount_err(s, t) = "CalculationOverflow"
                    /\ (~s.isRevoked /\ cliffFits /\ t >= s.startTime + s.cliffDuration
                                     /\ ~endFits) =>
                          calculate_vested_amount_err(s, t) = "CalculationOverflow"
                    /\ (/\ ~s.isRevoked /\ cliffFits /\ endFits
                        /\ t >= s.startTime + s.cliffDuration
                        /\ t < s.startTime + s.vestingDuration) =>
                          /\ calculate_vested_amount_err(s, t) = "Ok"
                          /\ t - s.startTime >= 0
                          /\ calculate_vested_amount(s, t) >= 0
                          /\ calculate_vested_amount(s, t) <= s.totalAmount
    /\ (/\ last.op \in {"claim", "revoke"}
        /\ ~last.pre.isRevoked
        /\ last.pre.startTime + last.pre.cliffDuration > MaxTimestamp) =>
          /\ last.err = "CalculationOverflow"
          /\ last.amount = 0
          /\ schedule = last.pre

\* C22 happens: a claim on a schedule whose cliff end the i64 does not hold returned
\* CalculationOverflow
C22_Witness ==
    /\ last.op = "claim"
    /\ last.err = "CalculationOverflow"
    /\ schedule.startTime + schedule.cliffDuration > MaxTimestamp
    /\ schedule.startTime <= MaxTimestamp

\* C27: funds cannot be locked by overflow: for every schedule accepted by create and
\* every time, the vested amount is a value rather than CalculationOverflow (the cliff end
\* and the vesting end are representable), so claim and revoke never fail with
\* CalculationOverflow on a created schedule.
C27_NoOverflowOnCreated ==
    /\ schedule.initialized =>
          /\ schedule.startTime + schedule.cliffDuration <= MaxTimestamp
          /\ schedule.startTime + schedule.vestingDuration <= MaxTimestamp
          /\ \A t \in TimePoints : calculate_vested_amount_err(schedule, t) = "Ok"
    /\ last.op \in {"claim", "revoke"} => last.err # "CalculationOverflow"

\* C29: the beneficiary's Claim button of the card is enabled, when no operation is
\* loading, exactly when the program would accept a claim on the displayed schedule:
\* cliff reached and claimable amount positive, a revoked schedule that still has vested
\* and unclaimed tokens included.
C29_ClaimButtonMatchesProgram ==
    schedule.initialized =>
        /\ ~claim_button_disabled(schedule, clock, FALSE)
              <=> claim_handler(schedule, clock).err = "Ok"
        /\ ~claim_button_disabled(schedule, clock, FALSE)
              <=> (isCliffReached(schedule, clock)
                     /\ calculateClaimableAmount(schedule, clock) > 0)

\* C28: the client's calculateVestedAmount agrees with the program's
\* calculate_vested_amount: for every reachable state of the schedule, revoked or not, and
\* every time from the last instruction on, both return the same value, so that the
\* claimable amount shown to the user equals the amount a claim at that time would pay.
C28_ClientAgreesWithProgram ==
    schedule.initialized =>
        \A t \in LaterReads :
            /\ calculateVestedAmount_err(schedule, t) = "Ok"
            /\ calculate_vested_amount_err(schedule, t) = "Ok"
            /\ calculateVestedAmount(schedule, t) = calculate_vested_amount(schedule, t)
            /\ calculateClaimableAmount(schedule, t) = claim_handler(schedule, t).amount

\* C23: conservation of value.  In every state reached from a successful create by claims
\* and one revoke at non-decreasing times, claimedAmount + revokedAmount <= totalAmount,
\* and the vault balance (the deposit minus every amount paid by claim and returned by
\* revoke) equals totalAmount - claimedAmount - revokedAmount and is never negative; the
\* beneficiary holds claimedAmount and the admin the rest.
C23_Conservation ==
    schedule.initialized =>
        /\ schedule.claimedAmount + schedule.revokedAmount <= schedule.totalAmount
        /\ vault = schedule.totalAmount - schedule.claimedAmount - schedule.revokedAmount
        /\ vault >= 0
        /\ beneficiaryTokens = schedule.claimedAmount
        /\ adminTokens = InitialAdminTokens - schedule.totalAmount + schedule.revokedAmount

\* C23 happens: a revoked schedule with tokens claimed, tokens returned and vested tokens
\* still in the vault
C23_Witness ==
    /\ schedule.isRevoked
    /\ schedule.claimedAmount > 0
    /\ schedule.revokedAmount > 0
    /\ vault > 0
    /\ vault = schedule.totalAmount - schedule.claimedAmount - schedule.revokedAmount

\* C24: claims are path-independent.  Immediately after a successful claim at time t,
\* claimedAmount is the vested amount at t, so the total paid after any sequence of
\* claims equals the vested amount at the last one, which is what a single claim at
\* that time would have paid: the rounding does not accumulate.
C24_ClaimsPathIndependent ==
    (last.op = "claim" /\ last.err = "Ok") =>
        LET single == claim_handler([last.pre EXCEPT !.claimedAmount = 0], clock)
        IN  /\ schedule.claimedAmount = calculate_vested_amount(schedule, clock)
            /\ schedule.claimedAmount = calculateVestedAmount(schedule, clock)
            /\ beneficiaryTokens = calculate_vested_amount(schedule, clock)
            /\ single.err = "Ok"
            /\ single.amount = beneficiaryTokens

\* C24 happens: a third of the total, rounded down, was claimed before, and a claim at
\* two thirds of the duration brings the total paid to two thirds, rounded down once
C24_Witness ==
    /\ last.op = "claim"
    /\ last.err = "Ok"
    /\ ~schedule.isRevoked
    /\ last.pre.claimedAmount = 333
    /\ last.amount = 333
    /\ beneficiaryTokens = 666
    /\ calculate_vested_amount(schedule, clock) = 666

\* nothing is left for the beneficiary in the vault, now or later
Drained ==
    /\ schedule.claimedAmount = schedule.totalAmount - schedule.revokedAmount
    /\ vault = 0
    /\ schedule.isRevoked \/ clock >= schedule.startTime + schedule.vestingDuration

\* C25: full drain is always reachable.  A claim at or after startTime + vestingDuration
\* on a schedule that is not revoked leaves claimedAmount = totalAmount and an empty
\* vault; a claim on a revoked schedule at a time not before the cliff end leaves
\* claimedAmount = totalAmount - revokedAmount and an empty vault; and when time keeps
\* passing and the beneficiary keeps claiming, every schedule is eventually drained.
C25_FullDrain ==
    /\ [](last.op = "claim" =>
            /\ (~last.pre.isRevoked
                  /\ clock >= last.pre.startTime + last.pre.vestingDuration) =>
                  /\ schedule.claimedAmount = schedule.totalAmount
                  /\ vault = 0
                  /\ last.err = IF last.pre.claimedAmount < last.pre.totalAmount
                                THEN "Ok" ELSE "NothingToClaim"
            /\ (last.pre.isRevoked
                  /\ clock >= last.pre.startTime + last.pre.cliffDuration) =>
                  /\ schedule.claimedAmount = schedule.totalAmount - schedule.revokedAmount
                  /\ vault = 0)
    /\ (schedule.initialized ~> Drained)

\* C25 happens: the first and only claim, made after the vesting end, paid the total
C25_Witness ==
    /\ last.op = "claim"
    /\ last.err = "Ok"
    /\ ~schedule.isRevoked
    /\ clock >= schedule.startTime + schedule.vestingDuration
    /\ last.pre.claimedAmount = 0
    /\ last.amount = schedule.totalAmount
    /\ vault = 0

\* C26: revocation before the cliff end returns everything.  A revoke at any time before
\* startTime + cliffDuration (before startTime included) succeeds, returns
\* unvested = totalAmount and sets revokedAmount = totalAmount; after it no claim ever
\* succeeds: CliffNotReached before the cliff end, NothingToClaim from the cliff end on.
C26_RevokeBeforeCliff ==
    /\ (/\ last.op = "revoke"
        /\ ~last.pre.isRevoked
        /\ clock < last.pre.startTime + last.pre.cliffDuration) =>
          /\ last.err = "Ok"
          /\ last.amount = last.pre.totalAmount
          /\ schedule.isRevoked
          /\ schedule.revokedAmount = schedule.totalAmount
          /\ vault = 0
    /\ (schedule.isRevoked /\ revokedAt < schedule.startTime + schedule.cliffDuration) =>
          /\ schedule.revokedAmount = schedule.totalAmount
          /\ schedule.claimedAmount = 0
          /\ beneficiaryTokens = 0
          /\ last.op = "claim" =>
                /\ last.amount = 0
                /\ last.err = IF clock < schedule.startTime + schedule.cliffDuration
                              THEN "CliffNotReached" ELSE "NothingToClaim"
          /\ \A t \in LaterReads : claim_handler(schedule, t).err # "Ok"

\* C26 happens: a schedule revoked during its cliff, after its start, refused a claim made
\* after the cliff end
C26_Witness ==
    /\ schedule.isRevoked
    /\ revokedAt > schedule.startTime
    /\ revokedAt < schedule.startTime + schedule.cliffDuration
    /\ clock > schedule.startTime + schedule.cliffDuration
    /\ last.op = "claim"
    /\ last.err = "NothingToClaim"

\* some call started through the hook has not resolved yet
CallInFlight == \E i \in CallIds : calls[i].phase # "idle"

\* C30: in useVesting, loading is true whenever a create, claim or revoke call started
\* through the hook has not yet resolved, and false once every started call has resolved,
\* whatever the interleaving of the calls, a second call started before the first one
\* resolves included.
C30_LoadingTracksCalls == loading <=> CallInFlight

====
